---- MODULE Spec2Model ----
(***************************************************************************)
(* Model of the miuz finite-state-machine runtime (src/src/index.ts):      *)
(* MachineInstance.setState, executeAction, start, send, subscribe and the *)
(* timers that setState schedules with setTimeout.                         *)
(*                                                                         *)
(* One engine call (start, send, a timer callback, subscribe, unsubscribe) *)
(* runs to completion on the single JavaScript thread, so each is one      *)
(* action.  The hooks, actions and subscriber callbacks a call runs are    *)
(* user procedures; they are given here as small command lists and run by  *)
(* an interpreter, re-entering the engine where the procedure calls send,  *)
(* subscribe or an unsubscribe closure.                                    *)
(***************************************************************************)
EXTENDS Integers, Sequences, FiniteSets, TLC

\* ------------------------------------------------------------------ bounds
\* number of calls the host makes (start, send, subscribe, unsubscribe) on an
\* instance of the full configuration, and on one of the example configuration
MaxCalls == 3
MaxExampleCalls == 4
\* number of registrations the subscriber array may hold
MaxSubscribers == 2
\* nesting of engine calls made from inside hooks and callbacks
MaxDepth == 3

\* --------------------------------------------------------- JavaScript values
\* A value is a tuple of strings: a tag followed by the payload.
Undefined == <<"undefined">>
Str(s) == <<"string", s>>
Arr(items) == <<"array">> \o items

\* an absent property read with obj.prop
None == "undefined"

\* ------------------------------------------------------------------ context
\* An object is the sequence of its own properties in insertion order.
Keys(obj) == {obj[i].key : i \in 1..Len(obj)}

Get(obj, k) ==
  IF k \in Keys(obj)
  THEN obj[CHOOSE i \in 1..Len(obj) : obj[i].key = k].val
  ELSE Undefined

\* obj[k] = v : an existing property keeps its place, a new one goes last
Put(obj, k, v) ==
  IF k \in Keys(obj)
  THEN [i \in 1..Len(obj) |-> IF obj[i].key = k THEN [key |-> k, val |-> v] ELSE obj[i]]
  ELSE Append(obj, [key |-> k, val |-> v])

\* delete obj[k]
Delete(obj, k) == SelectSeq(obj, LAMBDA p : p.key # k)

\* structuredClone(obj): a copy with the same properties in the same order;
\* values are immutable here, so the copy shares nothing with the original
structuredClone(obj) == [i \in 1..Len(obj) |-> [key |-> obj[i].key, val |-> obj[i].val]]

\* JSON.stringify(obj): the properties in insertion order, a property whose
\* value is undefined left out
JSONstringify(obj) == SelectSeq(obj, LAMBDA p : p.val # Undefined)

\* ------------------------------------------------- user procedures (inputs)
\* A hook, an action or a subscriber callback is a list of commands:
\*   set     ctx[key] = val          setData  ctx[key] = data
\*   copy    ctx[key] = ctx[src]     delete   delete ctx[key]
\*   send    if (state === when && type === on) instance.send()(key)
\*   unsub   call the unsubscribe closure of subscriber key, if there is one
\*   sub     if (state === when && type === on) instance.subscribe(key)
Cmd(op, key, src, val, when, on) ==
  [op |-> op, key |-> key, src |-> src, val |-> val, when |-> when, on |-> on]

Body(name) ==
  CASE name = "setValue"  -> << Cmd("setData", "value", "", Undefined, "", "") >>
    [] name = "commit"    -> << Cmd("copy", "committedValue", "value", Undefined, "", "") >>
    [] name = "setBoth"   -> << Cmd("setData", "value", "", Undefined, "", ""),
                                Cmd("setData", "committedValue", "", Undefined, "", "") >>
    [] name = "readd"     -> << Cmd("copy", "tmp", "committedValue", Undefined, "", ""),
                                Cmd("delete", "committedValue", "", Undefined, "", ""),
                                Cmd("copy", "committedValue", "tmp", Undefined, "", ""),
                                Cmd("delete", "tmp", "", Undefined, "", "") >>
    [] name = "clear"     -> << Cmd("delete", "value", "", Undefined, "", "") >>
    [] name = "forward"   -> << Cmd("send", "next", "", Undefined, "relay", "") >>
    [] name = "s1"        -> << Cmd("unsub", "s2", "", Undefined, "", "") >>
    [] name = "s3"        -> << Cmd("send", "go", "", Undefined, "idle", "State-Change") >>
    [] name = "s4"        -> << Cmd("sub", "s2", "", Undefined, "done", "State-Change") >>
    [] OTHER              -> << >>

\* the functions the host may pass to subscribe
Subscribers == {"s1", "s2", "s3", "s4"}

\* ------------------------------------------------- state definition tables
Handler(target, action) == [target |-> target, action |-> action]

\* one TStateObject; on and after are sequences of <<key, handler>> in the
\* order for-in enumerates them, hasOn tells an absent on map from an empty one
StateObject(entry, exit, hasOn, on, after) ==
  [entry |-> entry, exit |-> exit, hasOn |-> hasOn, on |-> on, after |-> after]

\* the configuration of the README's usage example
ExampleStates ==
  [ reading |-> StateObject(None, None, TRUE,
        << <<"edit", Handler("editing", "noop")>> >>, << >>),
    editing |-> StateObject(None, None, TRUE,
        << <<"cancel", Handler("reading", None)>>,
           <<"save", Handler("reading", "commit")>>,
           <<"edit", Handler(None, "setValue")>> >>, << >>) ]

\* a configuration that uses every feature of TStateObject; the targets
\* "ghost" and "toString" are not among its states
FullStates ==
  [ idle |-> StateObject("onEntry", "onExit", TRUE,
        << <<"go", Handler("active", "setValue")>>,
           <<"touch", Handler(None, "setBoth")>>,
           <<"nop", Handler(None, None)>>,
           <<"again", Handler("idle", None)>>,
           <<"swap", Handler(None, "readd")>>,
           <<"bad", Handler("ghost", "setValue")>>,
           <<"lost", Handler("toString", None)>> >>,
        << <<1, Handler(None, "commit")>>, <<2, Handler("done", None)>> >>),
    active |-> StateObject("onEntry", "onExit", TRUE,
        << <<"save", Handler("idle", "commit")>>,
           <<"drop", Handler(None, "clear")>>,
           <<"hop", Handler("relay", None)>> >>,
        << <<1, Handler("done", "clear")>> >>),
    relay |-> StateObject("forward", None, TRUE,
        << <<"next", Handler("active", None)>> >>, << >>),
    done |-> StateObject(None, "onExit", FALSE, << >>, << >>) ]

Configurations == {"example", "full"}

statesImplementationOf(c) == IF c = "example" THEN ExampleStates ELSE FullStates

initialStateOf(c) == IF c = "example" THEN "reading" ELSE "idle"

\* config.context of both configurations
InitialContext ==
  << [key |-> "committedValue", val |-> Str("")], [key |-> "value", val |-> Str("")] >>

\* the event names the host sends; "cancel" is unknown to every state of the
\* full configuration, "toString" is no entry of any on map
Events == {"edit", "cancel", "save", "go", "touch", "nop", "again", "swap", "bad", "lost", "drop", "hop",
           "next", "toString"}

\* what the host passes after the event name: nothing, or one value
NoData == "-"
Data == {NoData, "A"}

\* the rest parameter ...data of send: the array of the arguments given
RestArgs(d) == IF d = NoData THEN Arr(<< >>) ELSE Arr(<<d>>)

\* --------------------------------------------------------------------guards
\* predicates a guard may use, each reading the whole context
Predicate(name, ctx) ==
  CASE name = "valueNonEmpty" -> Get(ctx, "value") \notin {Undefined, Str(""), Arr(<< >>)}
    [] OTHER -> TRUE

Guard(key, pred) == [key |-> key, pred |-> pred]

\* the guards argument of the constructor, in for-in order
GuardSets ==
  { << >>,
    << Guard("value", "valueNonEmpty") >>,
    << Guard("value", "valueNonEmpty"), Guard("committedValue", "valueNonEmpty") >>,
    << Guard("committedValue", "valueNonEmpty"), Guard("value", "valueNonEmpty") >> }

\* ------------------------------------------------------------ engine state
VARIABLES
  cfg,          \* which configuration the instance was created from
  guards,       \* MachineInstance.guards
  stateID,      \* MachineInstance.stateID
  stateObject,  \* MachineInstance.stateObject, as the key of the table entry it is
  context,      \* MachineInstance.context
  subscribers,  \* MachineInstance.subscribers
  closures,     \* the subscribers for which an unsubscribe closure exists
  timers,       \* the callbacks given to setTimeout that have not run yet
  scheduled,    \* number of setTimeout calls made so far
  fired,        \* number of timer callbacks run so far
  trace,        \* what the last engine call did, step by step
  err,          \* the exception the last engine call ended with
  last,         \* the last engine call
  calls,        \* number of calls the host has made
  example,      \* progress of the README's usage example on this instance
  contextId,    \* which object this.context is
  configContext, \* MachineConfiguration.context: the object given at build time
  sibling,      \* another instance create() made from the same configuration
  created,      \* the instance the host's last call made, when it was create
  entered       \* the states the instance has switched into so far

vars == <<cfg, guards, stateID, stateObject, context, subscribers, closures,
          timers, scheduled, fired, trace, err, last, calls, example,
          contextId, configContext, sibling, created, entered>>

NoError == "none"

\* one step of an engine call, as recorded in trace:
\*   id    the setState / executeAction invocation the step belongs to
\*   ctx   the context at that step
Event(kind, id, a, b, ctx, data) ==
  [kind |-> kind, id |-> id, a |-> a, b |-> b, ctx |-> ctx, data |-> data]

\* the instance while a call runs; n numbers the invocations within the call
Machine ==
  [cfg |-> cfg, guards |-> guards, stateID |-> stateID, stateObject |-> stateObject,
   context |-> context, subscribers |-> subscribers, closures |-> closures,
   timers |-> timers, scheduled |-> scheduled, trace |-> << >>, err |-> NoError, n |-> 0]

Log(m, e) == [m EXCEPT !.trace = Append(@, e)]

\* throw new Error(...): nothing catches it, the whole call unwinds
Throw(m, name) ==
  [Log(m, Event("throw", m.n, name, "", m.context, << >>)) EXCEPT !.err = name]

States(m) == statesImplementationOf(m.cfg)

\* The tables and maps of a configuration are object literals, so obj[key]
\* also finds what they inherit from Object.prototype: a function, which is
\* truthy and has none of the properties target, action, entry, exit, on, after.
ObjectPrototype == {"constructor", "toString", "valueOf", "hasOwnProperty"}

\* handlers[key] read as an object: its target and action
Lookup(handlers, key) ==
  IF \E i \in 1..Len(handlers) : handlers[i][1] = key
  THEN handlers[CHOOSE i \in 1..Len(handlers) : handlers[i][1] = key][2]
  ELSE Handler(None, None)

\* handlers[key] is truthy
Has(handlers, key) ==
  \/ \E i \in 1..Len(handlers) : handlers[i][1] = key
  \/ key \in ObjectPrototype

\* this.statesImplementation[key] is truthy
HasState(m, key) == key \in DOMAIN States(m) \/ key \in ObjectPrototype

\* this.stateObject, given the key it was read with
Definition(m, key) ==
  IF key \in DOMAIN States(m) THEN States(m)[key]
  ELSE StateObject(None, None, FALSE, << >>, << >>)

RECURSIVE RunProc(_, _, _, _, _, _)
RECURSIVE forEach(_, _, _, _, _, _)
RECURSIVE applyGuards(_, _, _, _)
RECURSIVE schedule(_, _, _, _)
RECURSIVE setState(_, _, _)
RECURSIVE executeAction(_, _, _, _)
RECURSIVE send(_, _, _, _)

\* an unsubscribe closure that filters nothing out
unsubscribeNothing(m, subscriber) ==
  Log(m, Event("unsubscribe", m.n, "", subscriber, m.context, m.subscribers))

\* the unsubscribe closure of subscribe(subscriber): a new array without it
unsubscribe(m, subscriber) ==
  [Log(m, Event("unsubscribe", m.n, "", subscriber, m.context, m.subscribers))
     EXCEPT !.subscribers = SelectSeq(@, LAMBDA sub : sub # subscriber)]

\* subscribe(subscriber): push onto the live array
subscribe(m, subscriber) ==
  [Log(m, Event("subscribe", m.n, "", subscriber, m.context, m.subscribers))
     EXCEPT !.subscribers = Append(@, subscriber), !.closures = @ \cup {subscriber}]

\* one command of a user procedure; type is the eventType a subscriber got
RunCommand(m, c, data, type, depth) ==
  CASE c.op = "set"     -> [m EXCEPT !.context = Put(@, c.key, c.val)]
    [] c.op = "setData" -> [m EXCEPT !.context = Put(@, c.key, data)]
    [] c.op = "copy"    -> [m EXCEPT !.context = Put(@, c.key, Get(@, c.src))]
    [] c.op = "delete"  -> [m EXCEPT !.context = Delete(@, c.key)]
    [] c.op = "send"    -> IF (c.when = "" \/ c.when = m.stateID) /\ (c.on = "" \/ c.on = type)
                           THEN send(m, c.key, NoData, depth - 1)
                           ELSE m
    [] c.op = "unsub"   -> IF c.key \in m.closures THEN unsubscribe(m, c.key) ELSE m
    [] c.op = "sub"     -> IF (c.when = "" \/ c.when = m.stateID) /\ (c.on = "" \/ c.on = type)
                           THEN subscribe(m, c.key)
                           ELSE m
    [] OTHER            -> m

RunProc(m, body, i, data, type, depth) ==
  IF m.err # NoError \/ i > Len(body) THEN m
  ELSE RunProc(RunCommand(m, body[i], data, type, depth), body, i + 1, data, type, depth)

\* hook && hook(this.context)
RunHook(m, kind, id, hook, depth) ==
  IF m.err # NoError \/ hook = None THEN m
  ELSE RunProc(Log(m, Event(kind, id, m.stateID, hook, m.context, << >>)),
               Body(hook), 1, Undefined, "", depth)

\* a loop over this.subscribers as it is at each index instead of forEach
forEachLive(m, array, k, type, id, depth) ==
  IF m.err # NoError \/ k > Len(m.subscribers) THEN m
  ELSE forEach(RunProc(Log(m, Event("notify", id, type, m.subscribers[k], m.context, <<m.stateID>>)),
                       Body(m.subscribers[k]), 1, Undefined, type, depth),
               array, k + 1, type, id, depth)

\* array.forEach(callback) from index k on: array is the array object the call
\* began with.  Its length is read once; subscribe only pushes behind that
\* length and unsubscribe replaces this.subscribers by a new array, so the
\* elements visited are the elements array had when the call began.
forEach(m, array, k, type, id, depth) ==
  IF m.err # NoError \/ k > Len(array) THEN m
  ELSE forEach(RunProc(Log(m, Event("notify", id, type, array[k], m.context, <<m.stateID>>)),
                       Body(array[k]), 1, Undefined, type, depth),
               array, k + 1, type, id, depth)

\* this.subscribers.forEach(subscriber => subscriber({context, state}, type))
notify(m, type, id, depth) ==
  IF m.err # NoError THEN m
  ELSE forEach(Log(m, Event("emit", id, type, "", m.context, m.subscribers)),
               m.subscribers, 1, type, id, depth)

\* a rollback of the whole action instead of the one field
revertAll(ctx, clonedContext, key) == clonedContext

\* this.context[guard] = clonedContext[guard]
revert(ctx, clonedContext, key) == Put(ctx, key, Get(clonedContext, key))

\* for (const guard in this.guards) from the i-th guard on
applyGuards(m, clonedContext, i, id) ==
  IF i > Len(m.guards) THEN m
  ELSE LET g == m.guards[i]
       IN IF ~Predicate(g.pred, m.context)
          THEN applyGuards(
                 Log([m EXCEPT !.context = revert(@, clonedContext, g.key)],
                     Event("revert", id, g.key, g.pred, m.context, << >>)),
                 clonedContext, i + 1, id)
          ELSE applyGuards(Log(m, Event("accept", id, g.key, g.pred, m.context, << >>)),
                           clonedContext, i + 1, id)

\* JSON.stringify(clonedContext) !== JSON.stringify(this.context)
changed(clonedContext, ctx) == JSONstringify(clonedContext) # JSONstringify(ctx)

executeAction(m, action, data, depth) ==
  LET id == m.n + 1
      clonedContext == structuredClone(m.context)
      m0 == Log([m EXCEPT !.n = id], Event("action", id, action, "", m.context, data))
      m1 == RunProc(m0, Body(action), 1, data, "", depth)
      m2 == IF m1.err # NoError THEN m1
            ELSE applyGuards(Log(m1, Event("mutated", id, action, "", m1.context, data)),
                             clonedContext, 1, id)
      m3 == IF m2.err # NoError THEN m2
            ELSE Log(m2, Event("guarded", id, action, "", m2.context, data))
  IN IF m3.err = NoError /\ changed(clonedContext, m3.context)
     THEN notify(m3, "Context-Change", id, depth)
     ELSE m3

\* for (const delay in afterEvents) setTimeout(...), from the i-th entry on
schedule(m, after, i, id) ==
  IF i > Len(after) THEN m
  ELSE LET no == m.scheduled + 1
           timer == [no |-> no, rem |-> after[i][1], owner |-> m.stateObject,
                     target |-> after[i][2].target, action |-> after[i][2].action]
       IN schedule(
            Log([m EXCEPT !.timers = Append(@, timer), !.scheduled = no],
                Event("setTimeout", id, m.stateObject, timer.target, m.context, <<timer.action>>)),
            after, i + 1, id)

\* exitStep without the comparison: the exit hook also runs on a self-transition
exitStepAlways(m, target, id, depth) ==
  RunHook(m, "exit", id, Definition(m, m.stateObject).exit, depth)

\* if (stateID !== this.stateID) { exitEvent && exitEvent(this.context) }
exitStep(m, target, id, depth) ==
  IF target # m.stateID
  THEN RunHook(m, "exit", id, Definition(m, m.stateObject).exit, depth)
  ELSE m

\* a switch that also cancels the timers of the state it leaves
switchStepCancel(m, target, id) ==
  IF m.err # NoError THEN m
  ELSE Log([m EXCEPT !.stateID = target, !.stateObject = target,
                     !.timers = SelectSeq(@, LAMBDA timer : timer.owner # m.stateObject)],
           Event("switch", id, m.stateID, target, m.context, << >>))

\* this.stateID = stateID; this.stateObject = this.statesImplementation[stateID]
switchStep(m, target, id) ==
  IF m.err # NoError THEN m
  ELSE Log([m EXCEPT !.stateID = target, !.stateObject = target],
           Event("switch", id, m.stateID, target, m.context, << >>))

\* entryEvent && entryEvent(this.context)
entryStep(m, id, depth) ==
  RunHook(m, "entry", id, Definition(m, m.stateObject).entry, depth)

\* const afterEvents = this.stateObject.after; if (afterEvents) for (...) setTimeout(...)
afterStep(m, target, id) ==
  IF m.err # NoError THEN m
  ELSE Log(schedule(m, Definition(m, m.stateObject).after, 1, id),
           Event("return", id, m.stateID, target, m.context, << >>))

setState(m, target, depth) ==
  LET id == m.n + 1
      m0 == Log([m EXCEPT !.n = id], Event("setState", id, m.stateID, target, m.context, << >>))
  IN IF ~HasState(m, target) THEN Throw(m0, "UnknownState")
     ELSE afterStep(
            notify(entryStep(switchStep(exitStep(m0, target, id, depth), target, id), id, depth),
                   "State-Change", id, depth),
            target, id)

\* the two checks of send: the error it throws, NoError when it goes on
resolve(m, event) ==
  LET currentStateEvents == Definition(m, m.stateObject)
  IN IF ~currentStateEvents.hasOn THEN "MissingEventTable"
     ELSE IF ~Has(currentStateEvents.on, event) THEN "UnknownEvent"
     ELSE NoError

\* dispatch with the two statements swapped: the transition runs first
dispatchTargetFirst(m, eventObject, data, depth) ==
  LET m1 == IF eventObject.target # None
            THEN setState(m, eventObject.target, depth)
            ELSE m
  IN IF m1.err = NoError /\ eventObject.action # None
     THEN executeAction(m1, eventObject.action, data, depth)
     ELSE m1

\* eventAction && this.executeAction(eventAction, data);
\* eventTarget && this.setState(eventTarget);
dispatch(m, eventObject, data, depth) ==
  LET m1 == IF eventObject.action # None
            THEN executeAction(m, eventObject.action, data, depth)
            ELSE m
  IN IF m1.err = NoError /\ eventObject.target # None
     THEN setState(m1, eventObject.target, depth)
     ELSE m1

\* a send that refuses to work before the instance has entered a state
sendIfStarted(m, event, data, depth) ==
  IF entered = {} THEN Throw(m, "NotStarted")
  ELSE IF depth = 0 THEN Throw(m, "RangeError")
  ELSE IF resolve(m, event) # NoError THEN Throw(m, resolve(m, event))
  ELSE dispatch(m, Lookup(Definition(m, m.stateObject).on, event), RestArgs(data), depth)

\* the function send<TCurrentState>() returns, applied to (event, ...data);
\* data is the rest array
send(m, event, data, depth) ==
  IF depth = 0 THEN Throw(m, "RangeError")
  ELSE IF resolve(m, event) # NoError THEN Throw(m, resolve(m, event))
  ELSE dispatch(m, Lookup(Definition(m, m.stateObject).on, event), RestArgs(data), depth)

\* ------------------------------------------------ the configuration object
\* a reference to a context object: which object it is and what it holds;
\* two references to one object see each other's writes
Reference(object, defined, value) == [object |-> object, defined |-> defined, value |-> value]

UndefinedReference == Reference("undefined", FALSE, << >>)

\* structuredClone(context) of create: a new object, undefined for undefined
cloneOf(reference, object) ==
  IF reference.defined THEN Reference(object, TRUE, structuredClone(reference.value))
  ELSE reference

\* constructor(statesImplementation, initialState, context) of MachineInstance
MachineInstance(c, initialState, reference) ==
  [stateID |-> initialState,
   stateObject |-> IF HasState([cfg |-> c], initialState) THEN initialState ELSE None,
   context |-> reference]

NoInstance == [stateID |-> "", stateObject |-> "", context |-> UndefinedReference]

\* what the host may pass to create: nothing, or an object with both, one or
\* none of context and initialState
Argument(name, given, hasContext, hasInitialState) ==
  [name |-> name, given |-> given, hasContext |-> hasContext, hasInitialState |-> hasInitialState]

NoArgument == Argument("()", FALSE, FALSE, FALSE)

Arguments ==
  { NoArgument,
    Argument("({ context, initialState })", TRUE, TRUE, TRUE),
    Argument("({ context })", TRUE, TRUE, FALSE),
    Argument("({ initialState })", TRUE, FALSE, TRUE),
    Argument("({})", TRUE, FALSE, FALSE) }

\* the context and the initial state the host passes when it passes one
HostContext ==
  << [key |-> "committedValue", val |-> Str("B")], [key |-> "value", val |-> Str("B")] >>

HostInitialState(c) == IF c = "example" THEN "editing" ELSE "active"

\* the parameter of create after its default: the default object stands in
\* for an argument that was not given at all, not for single properties
parameterOf(c, buildContext, argument) ==
  IF argument.given
  THEN [context |-> IF argument.hasContext THEN Reference("host", TRUE, HostContext)
                    ELSE UndefinedReference,
        initialState |-> IF argument.hasInitialState THEN HostInitialState(c) ELSE None]
  ELSE [context |-> Reference("config", TRUE, buildContext), initialState |-> initialStateOf(c)]

\* a create that hands the context object on as it is
createShared(c, buildContext, argument, object) ==
  LET parameter == parameterOf(c, buildContext, argument)
  IN MachineInstance(c, parameter.initialState, parameter.context)

\* create({ context, initialState } = { context: this.context, initialState: this.initialState }):
\* object names the object structuredClone makes
create(c, buildContext, argument, object) ==
  LET parameter == parameterOf(c, buildContext, argument)
  IN MachineInstance(c, parameter.initialState, cloneOf(parameter.context, object))

\* ------------------------------------------------------------------ actions
CallBound == IF cfg = "example" THEN MaxExampleCalls ELSE MaxCalls

Call(op, event, data, timer) == [op |-> op, event |-> event, data |-> data, timer |-> timer]

\* the instance after a call that ran from Machine to m; what the call wrote
\* into this.context is seen through every reference to the same object
Commit(m) ==
  /\ stateID' = m.stateID
  /\ stateObject' = m.stateObject
  /\ context' = m.context
  /\ subscribers' = m.subscribers
  /\ closures' = m.closures
  /\ timers' = m.timers
  /\ scheduled' = m.scheduled
  /\ trace' = m.trace
  /\ err' = m.err
  /\ configContext' = IF contextId = "config" THEN m.context ELSE configContext
  /\ sibling' = IF sibling.context.object = contextId
                THEN [sibling EXCEPT !.context.value = m.context]
                ELSE sibling
  /\ created' = NoInstance
  /\ entered' = entered \cup {m.trace[i].b : i \in {i \in 1..Len(m.trace) : m.trace[i].kind = "switch"}}
  /\ UNCHANGED <<cfg, guards, contextId>>

\* The configuration was built with InitialContext; the instance and its
\* sibling are what create() returns, the instance with guards is
\* new MachineInstance(statesImplementation, initialState, structuredClone(context), guards)
Init ==
  /\ cfg \in Configurations
  /\ guards \in GuardSets
  /\ configContext = InitialContext
  /\ LET self == create(cfg, configContext, NoArgument, "self")
     IN /\ stateID = self.stateID
        /\ stateObject = self.stateObject
        /\ context = self.context.value
        /\ contextId = self.context.object
  /\ sibling = create(cfg, configContext, NoArgument, "sibling")
  /\ created = NoInstance
  /\ entered = {}
  /\ subscribers = << >>
  /\ closures = {}
  /\ timers = << >>
  /\ scheduled = 0
  /\ fired = 0
  /\ trace = << >>
  /\ err = NoError
  /\ last = Call("new", "", NoData, 0)
  /\ calls = 0
  /\ example = [step |-> IF cfg = "example" THEN 0 ELSE -1, sc |-> 0, cc |-> 0]

\* The usage example of the README: config.create().start(), then an observer
\* subscribes, then send('edit'), send('edit', 'A'), send('save').  step is
\* the number of these calls made so far when no other start or send was
\* made, -1 otherwise; sc and cc count the State-Change and Context-Change
\* emissions of the sends.
ExampleScript == << Call("start", "", NoData, 0), Call("send", "edit", NoData, 0),
                    Call("send", "edit", "A", 0), Call("send", "save", NoData, 0) >>

Emissions(t, type) == Len(SelectSeq(t, LAMBDA e : e.kind = "emit" /\ e.a = type))

Follow(call, t) ==
  IF example.step >= 0 /\ example.step < Len(ExampleScript) /\ ExampleScript[example.step + 1] = call
  THEN [step |-> example.step + 1,
        sc |-> IF call.op = "send" THEN example.sc + Emissions(t, "State-Change") ELSE example.sc,
        cc |-> IF call.op = "send" THEN example.cc + Emissions(t, "Context-Change") ELSE example.cc]
  ELSE [step |-> -1, sc |-> 0, cc |-> 0]

\* instance.start()
Start ==
  /\ calls < CallBound
  /\ Commit(setState(Machine, initialStateOf(cfg), MaxDepth))
  /\ last' = Call("start", "", NoData, 0)
  /\ calls' = calls + 1
  /\ example' = Follow(last', trace')
  /\ UNCHANGED fired

\* instance.send()(event) and instance.send()(event, data)
Send(event, data) ==
  /\ calls < CallBound
  /\ Commit(send(Machine, event, data, MaxDepth))
  /\ last' = Call("send", event, data, 0)
  /\ calls' = calls + 1
  /\ example' = Follow(last', trace')
  /\ UNCHANGED fired

\* instance.subscribe(subscriber)
Subscribe(subscriber) ==
  /\ calls < CallBound
  /\ Len(subscribers) < MaxSubscribers
  /\ Commit(subscribe(Machine, subscriber))
  /\ last' = Call("subscribe", subscriber, NoData, 0)
  /\ calls' = calls + 1
  /\ UNCHANGED <<fired, example>>

\* the host calls the closure an earlier subscribe(subscriber) returned
Unsubscribe(subscriber) ==
  /\ calls < CallBound
  /\ subscriber \in closures
  /\ Commit(unsubscribe(Machine, subscriber))
  /\ last' = Call("unsubscribe", subscriber, NoData, 0)
  /\ calls' = calls + 1
  /\ UNCHANGED <<fired, example>>

\* a millisecond passes while no timer is due
Tick ==
  /\ timers # << >>
  /\ \A i \in 1..Len(timers) : timers[i].rem > 0
  /\ timers' = [i \in 1..Len(timers) |-> [timers[i] EXCEPT !.rem = @ - 1]]
  /\ UNCHANGED <<cfg, guards, stateID, stateObject, context, subscribers, closures,
                 scheduled, fired, trace, err, last, calls, example,
                 contextId, configContext, sibling, created, entered>>

RemoveAt(seq, i) == SubSeq(seq, 1, i - 1) \o SubSeq(seq, i + 1, Len(seq))

\* a timer callback that leaves out the transition
TimerCallbackActionOnly(m, timer, depth) ==
  IF timer.action # None
  THEN executeAction(m, timer.action, Undefined, depth)
  ELSE m

\* the callback given to setTimeout:
\*   afterEventAction && this.executeAction(afterEventAction);
\*   afterEventTarget && this.setState(afterEventTarget);
TimerCallback(m, timer, depth) ==
  LET m1 == IF timer.action # None
            THEN executeAction(m, timer.action, Undefined, depth)
            ELSE m
  IN IF m1.err = NoError /\ timer.target # None
     THEN setState(m1, timer.target, depth)
     ELSE m1

\* the event loop runs the i-th pending timer, which is due
FireTimer(i) ==
  /\ timers[i].rem = 0
  /\ Commit(TimerCallback([Machine EXCEPT !.timers = RemoveAt(@, i)], timers[i], MaxDepth))
  /\ last' = Call("timer", timers[i].owner, timers[i].target, timers[i].no)
  /\ fired' = fired + 1
  /\ UNCHANGED <<calls, example>>

\* configuration.create(argument): one more instance, which the host drops
Create(argument) ==
  /\ calls < CallBound
  /\ created' = create(cfg, configContext, argument, "created")
  /\ last' = Call("create", argument.name, NoData, 0)
  /\ calls' = calls + 1
  /\ trace' = << >>
  /\ err' = NoError
  /\ UNCHANGED <<cfg, guards, stateID, stateObject, context, subscribers, closures, timers,
                 scheduled, fired, example, contextId, configContext, sibling, entered>>

Next ==
  \/ \E argument \in Arguments : Create(argument)
  \/ Start
  \/ \E event \in Events, data \in Data : Send(event, data)
  \/ \E subscriber \in Subscribers : Subscribe(subscriber)
  \/ \E subscriber \in Subscribers : Unsubscribe(subscriber)
  \/ Tick
  \/ \E i \in 1..Len(timers) : FireTimer(i)

Spec == Init /\ [][Next]_vars

\* a timer is due
TimerDue == \E i \in 1..Len(timers) : timers[i].rem = 0

\* the event loop runs a due timer: the steps of Next that count in fired are
\* the FireTimer steps, and one is possible exactly when a timer is due
RunTimer == TimerDue /\ fired' = fired + 1

\* The event loop serves timers: time passes while timers are pending, and a
\* timer that is due is run.
Fairness ==
  /\ WF_vars(Tick)
  /\ WF_fired(RunTimer)

LiveSpec == Init /\ [][Next]_vars /\ Fairness

\* =============================================================== properties
\* the steps of trace that belong to invocation id and whose kind is in kinds
StepsIn(t, id, kinds) == SelectSeq(t, LAMBDA e : e.id = id /\ e.kind \in kinds)

StepsOf(id, kinds) == StepsIn(trace, id, kinds)

Shape(steps) == [j \in 1..Len(steps) |-> <<steps[j].kind, steps[j].a, steps[j].b>>]

Table == statesImplementationOf(cfg)

\* the definition this.stateObject is when it was read with key
Def(key) == Definition(Machine, key)

\* the indices of trace at which setState was entered with a target of the table
Transitions == {i \in 1..Len(trace) : trace[i].kind = "setState" /\ trace[i].b \in DOMAIN Table}

\* what a transition from old to target has to do, given the subscriber
\* array registered when its notification pass began
ExpectedSteps(old, target, registered) ==
  <<  <<"setState", old, target>>  >>
  \o (IF target # old /\ Def(old).exit # None
      THEN << <<"exit", old, Def(old).exit>> >> ELSE << >>)
  \o << <<"switch", old, target>> >>
  \o (IF Def(target).entry # None
      THEN << <<"entry", target, Def(target).entry>> >> ELSE << >>)
  \o << <<"emit", "State-Change", "">> >>
  \o [j \in 1..Len(registered) |-> <<"notify", "State-Change", registered[j]>>]

\* C1: every transition to a target of the state table, from send, start or a
\* timer, runs the old state's exit hook iff the target differs from the
\* current state and before the switch, then the target's entry hook (also on
\* a self-transition), then notifies State-Change once per registered
\* subscriber.
C1_TransitionOrder ==
  \A i \in Transitions :
    LET steps == StepsOf(trace[i].id, {"setState", "exit", "switch", "entry", "emit", "notify"})
        emits == SelectSeq(steps, LAMBDA e : e.kind = "emit")
    IN /\ Len(emits) = 1
       /\ Shape(steps) = ExpectedSteps(trace[i].a, trace[i].b, emits[1].data)

\* a transition to another state that ran an exit hook, an entry hook and
\* notified a subscriber
C1_Witness ==
  \E i \in Transitions :
    /\ trace[i].a # trace[i].b
    /\ Len(StepsOf(trace[i].id, {"exit"})) = 1
    /\ Len(StepsOf(trace[i].id, {"entry"})) = 1
    /\ Len(StepsOf(trace[i].id, {"notify"})) >= 1

\* a self-transition caused by a timer or by send
C1_WitnessSelf ==
  \E i \in Transitions : trace[i].a = trace[i].b /\ last.op = "send"

\* the step is a call of send by the host
SendStep == calls' = calls + 1 /\ last'.op = "send"

\* the handler the current state has for the event of the call just made
HandlerOf(event) == Lookup(Def(stateObject).on, event)

Untouched == UNCHANGED <<stateID, stateObject, context, subscribers, closures, timers, scheduled>>

\* the on map of the current state has an entry for the event
HasEntry(event) == \E i \in 1..Len(Def(stateObject).on) : Def(stateObject).on[i][1] = event

\* C2: send throws MissingEventTable when the current state has no on map and
\* UnknownEvent when its on map has no entry for the event; the call then
\* changes neither the state, the context, the subscribers nor the pending
\* timers and runs no hook, action or notification.
C2_SendErrors ==
  [][SendStep =>
       /\ ~Def(stateObject).hasOn =>
            /\ err' = "MissingEventTable"
            /\ Untouched
            /\ Shape(trace') = << <<"throw", "MissingEventTable", "">> >>
       /\ (Def(stateObject).hasOn /\ ~HasEntry(last'.event)) =>
            /\ err' = "UnknownEvent"
            /\ Untouched
            /\ Shape(trace') = << <<"throw", "UnknownEvent", "">> >>]_vars

\* C3: with an action and a target the action is executed completely, guards
\* and Context-Change included, before the transition starts, and the exit
\* and entry hooks of the transition see the context the action left; with
\* only an action the state stays; with only a target no action runs; with
\* neither nothing changes and nothing is emitted.
C3_ActionBeforeTarget ==
  [][(SendStep /\ resolve(Machine, last'.event) = NoError) =>
       LET h == HandlerOf(last'.event)
           t == trace'
           first == CHOOSE i \in 1..Len(t) : t[i].kind = "setState" /\ t[i].id = t[1].id + 1
           left == CHOOSE i \in 1..Len(t) : t[i].kind = "guarded" /\ t[i].id = t[1].id
       IN /\ (h.action # None /\ h.target # None) =>
               /\ t[1].kind = "action" /\ t[1].a = h.action
               /\ \E i \in 1..Len(t) : t[i].kind = "guarded" /\ t[i].id = t[1].id
               /\ \E i \in 1..Len(t) : t[i].kind = "setState" /\ t[i].id = t[1].id + 1
               /\ t[first].b = h.target
               /\ \A i \in 1..Len(t) : t[i].id = t[1].id => i < first
               /\ t[first].ctx = t[left].ctx
               /\ \A i \in 1..Len(t) :
                    (t[i].id = t[first].id /\ t[i].kind \in {"exit", "entry"}) => t[i].ctx = t[left].ctx
          /\ (h.action # None /\ h.target = None) =>
               /\ t[1].kind = "action" /\ t[1].a = h.action
               /\ stateID' = stateID /\ stateObject' = stateObject
               /\ \A i \in 1..Len(t) : t[i].kind # "setState"
          /\ (h.action = None /\ h.target # None) =>
               /\ t[1].kind = "setState" /\ t[1].b = h.target
               /\ \A i \in 1..Len(t) : t[i].kind = "action" => t[i].id > t[1].id
          /\ (h.action = None /\ h.target = None) =>
               /\ Untouched
               /\ t = << >>]_vars

\* send ran an action that changed the context and then a transition whose
\* exit and entry hooks ran
C3_Witness ==
  /\ last.op = "send" /\ err = NoError
  /\ Len(trace) > 1 /\ trace[1].kind = "action"
  /\ \E i, j, k, l \in 1..Len(trace) :
       /\ trace[i].kind = "guarded" /\ trace[i].id = 1 /\ trace[i].ctx # trace[1].ctx
       /\ trace[j].kind = "setState" /\ trace[j].id = 2
       /\ trace[k].kind = "exit" /\ trace[k].id = 2
       /\ trace[l].kind = "entry" /\ trace[l].id = 2

\* C4: send calls the handler's action with the live context and with exactly
\* the data value given to send, and with no data value when none was given.
C4_DataForwarded ==
  (last.op = "send" /\ trace # << >> /\ trace[1].kind = "action") =>
    trace[1].data = (IF last.data = NoData THEN Undefined ELSE Str(last.data))

\* the executeAction invocations of the last call that ran to the end
Executions == {i \in 1..Len(trace) : trace[i].kind = "action"
                 /\ \E j \in 1..Len(trace) : trace[j].kind = "guarded" /\ trace[j].id = trace[i].id}

\* the context an execution started with, the one its action left and the
\* one the guards left
Before(i) == trace[i].ctx
Mutated(i) == trace[CHOOSE j \in 1..Len(trace) : trace[j].kind = "mutated" /\ trace[j].id = trace[i].id].ctx
After(i) == trace[CHOOSE j \in 1..Len(trace) : trace[j].kind = "guarded" /\ trace[j].id = trace[i].id].ctx

\* the guarded fields whose predicate returned false in execution i
Rejected(i) == {trace[j].a : j \in {j \in 1..Len(trace) : trace[j].kind = "revert" /\ trace[j].id = trace[i].id}}

Fields(i) == Keys(Before(i)) \cup Keys(Mutated(i)) \cup Keys(After(i)) \cup {guards[j].key : j \in 1..Len(guards)}

\* C5: after an action every guarded field whose predicate returned false has
\* the value it had before the action, and every other field, unguarded or
\* guarded with a predicate that returned true, has the value the action wrote.
C5_FieldLevelRollback ==
  \A i \in Executions :
    /\ \A j \in 1..Len(guards) :
         LET verdicts == SelectSeq(trace, LAMBDA e : e.id = trace[i].id
                                     /\ e.kind \in {"revert", "accept"} /\ e.a = guards[j].key)
         IN /\ Len(verdicts) = 1
            /\ (verdicts[1].kind = "revert") = ~Predicate(guards[j].pred, verdicts[1].ctx)
    /\ \A f \in Fields(i) :
         Get(After(i), f) = (IF f \in Rejected(i) THEN Get(Before(i), f) ELSE Get(Mutated(i), f))

\* an action changed two fields, a guard rejected one of them and the other
\* kept what the action wrote
C5_Witness ==
  \E i \in Executions : \E f, g \in Fields(i) :
    /\ g \in Rejected(i) /\ Get(Mutated(i), g) # Get(Before(i), g)
    /\ f \notin Rejected(i) /\ Get(Mutated(i), f) # Get(Before(i), f)
    /\ Get(After(i), f) = Get(Mutated(i), f)

\* C6: an action execution emits Context-Change iff some field's value after
\* the guards differs from its value before the action.
C6_ContextChangeIffDiffers ==
  \A i \in Executions :
    (\E j \in 1..Len(trace) : trace[j].kind = "emit" /\ trace[j].id = trace[i].id
                                /\ trace[j].a = "Context-Change")
    <=> (\E f \in Fields(i) : Get(After(i), f) # Get(Before(i), f))

Range(seq) == {seq[i] : i \in 1..Len(seq)}

\* the step is an engine call: start, send, subscribe, unsubscribe or a timer
CallStep == calls' # calls \/ fired' # fired

\* the notifications of the pass that begins at index p of t
PassOf(t, p) ==
  SelectSeq(t, LAMBDA e : e.kind = "notify" /\ e.id = t[p].id /\ e.a = t[p].a)

\* C7 as stated: once the unsubscribe closure of fn has been invoked, fn gets
\* no later notification, also when the closure is invoked from another
\* subscriber's callback while a pass is in progress.
C7_NoNotificationAfterUnsubscribe ==
  \A u, j \in 1..Len(trace) :
    (u < j /\ trace[u].kind = "unsubscribe" /\ trace[j].kind = "notify") =>
      trace[j].b # trace[u].b

\* C7 amended: fn is invoked in no notification pass that begins after its
\* unsubscribe closure was invoked (a pass in progress at that moment still
\* reaches fn), unless it was subscribed again; a registration leaves the array only through its own
\* unsubscribe closure, and every pass invokes each subscriber registered
\* when it began.
C7_NoPassAfterUnsubscribe ==
  [][CallStep =>
       LET t == trace'
       IN /\ \A fn \in closures \ Range(subscribers) :
               \A j \in 1..Len(t) :
                 (t[j].kind = "notify" /\ t[j].b = fn) =>
                   \E u \in 1..(j - 1) : t[u].kind = "subscribe" /\ t[u].b = fn
          /\ \A u, p \in 1..Len(t) :
               (u < p /\ t[u].kind = "unsubscribe" /\ t[p].kind = "emit") =>
                 /\ t[u].b \notin Range(t[p].data)
                 /\ \A j \in 1..Len(PassOf(t, p)) : PassOf(t, p)[j].b # t[u].b
          /\ \A fn \in Range(subscribers) :
               Len(SelectSeq(subscribers', LAMBDA x : x = fn)) < Len(SelectSeq(subscribers, LAMBDA x : x = fn))
                 => \E u \in 1..Len(t) : t[u].kind = "unsubscribe" /\ t[u].b = fn
          /\ \A p \in 1..Len(t) :
               t[p].kind = "emit" =>
                 [j \in 1..Len(PassOf(t, p)) |-> PassOf(t, p)[j].b] = t[p].data]_vars

\* a callback invoked the unsubscribe closure of another subscriber during a
\* pass; a pass that began later left that subscriber out and reached the rest
C7_Witness ==
  \E u, p \in 1..Len(trace) :
    /\ u < p /\ trace[u].kind = "unsubscribe" /\ trace[p].kind = "emit"
    /\ trace[u].b \in Range(trace[u].data)
    /\ trace[u].b \notin Range(trace[p].data)
    /\ Len(PassOf(trace, p)) >= 1

\* the step is a call of start by the host
StartStep == calls' = calls + 1 /\ last'.op = "start"

initialState == initialStateOf(cfg)

\* C8 as stated: every call of start runs the initial state's entry hook
\* exactly once, runs no exit hook, emits State-Change and leaves the instance
\* in the initial state.
C8_StartNeverExits ==
  last.op = "start" =>
    /\ Len(SelectSeq(trace, LAMBDA e : e.kind = "entry" /\ e.a = initialState))
         = (IF Def(initialState).entry # None THEN 1 ELSE 0)
    /\ \A i \in 1..Len(trace) : trace[i].kind # "exit"
    /\ \E i \in 1..Len(trace) : trace[i].kind = "emit" /\ trace[i].a = "State-Change"
    /\ stateID = initialState

\* C8 amended: the transition start makes runs the initial state's entry hook
\* exactly once and emits State-Change once; it runs no exit hook when the
\* instance is in the initial state and otherwise the exit hook of the state
\* it leaves, before the entry hook; it switches to the initial state, where
\* the instance stays unless a hook or subscriber re-enters send in the call.
C8_StartEntersInitial ==
  [][StartStep =>
       LET t == trace'
           id == t[1].id
       IN /\ t[1].kind = "setState" /\ t[1].a = stateID /\ t[1].b = initialState
          /\ Shape(StepsIn(t, id, {"entry"}))
               = (IF Def(initialState).entry # None
                  THEN << <<"entry", initialState, Def(initialState).entry>> >> ELSE << >>)
          /\ Shape(StepsIn(t, id, {"exit"}))
               = (IF stateID # initialState /\ Def(stateObject).exit # None
                  THEN << <<"exit", stateID, Def(stateObject).exit>> >> ELSE << >>)
          /\ Shape(StepsIn(t, id, {"switch"})) = << <<"switch", stateID, initialState>> >>
          /\ Shape(StepsIn(t, id, {"emit"})) = << <<"emit", "State-Change", "">> >>
          /\ (\A i \in 1..Len(t) : t[i].id = id) => stateID' = initialState]_vars

\* start was called in another state than the initial one: that state's exit
\* hook ran and the instance is back in the initial state
C8_Witness ==
  /\ last.op = "start" /\ stateID = initialState
  /\ \E i \in 1..Len(trace) : trace[i].kind = "exit" /\ trace[i].a # initialState
  /\ \E i \in 1..Len(trace) : trace[i].kind = "entry" /\ trace[i].a = initialState

\* C9: on the reading/editing example with context { committed: '', value: '' }
\* the run start(); send('edit'); send('edit', 'A'); send('save') ends in
\* state reading with context { committed: 'A', value: 'A' }, after two
\* State-Change events and one Context-Change event.  (The README names the
\* first field committedValue.)
C9_ExampleRun ==
  (cfg = "example" /\ guards = << >> /\ example.step = Len(ExampleScript)) =>
    /\ stateID = "reading"
    /\ context = << [key |-> "committedValue", val |-> Str("A")],
                    [key |-> "value", val |-> Str("A")] >>
    /\ example.sc = 2
    /\ example.cc = 1

\* what the run does end in
C9_Observed ==
  (cfg = "example" /\ guards = << >> /\ example.step = Len(ExampleScript)) =>
    /\ stateID = "reading"
    /\ context = << [key |-> "committedValue", val |-> Arr(<<"A">>)],
                    [key |-> "value", val |-> Arr(<<"A">>)] >>
    /\ example.sc = 2
    /\ example.cc = 2

\* no call schedules more than two timers, so timers are numbered up to this
MaxTimers == 2 * MaxCalls

\* the transition a timer callback made: the first setState of the call
TimerTransition == CHOOSE i \in 1..Len(trace) :
                     trace[i].kind = "setState" /\ \A j \in 1..(i - 1) : trace[j].kind # "setState"

\* C10: a timer scheduled for an after entry with a target is eventually run,
\* whether or not other events are sent meanwhile; the instance then makes the
\* transition to that target by itself and emits one State-Change for it.
C10_AfterTransitionFires ==
  \A k \in 1..MaxTimers :
    (\E i \in 1..Len(timers) : timers[i].no = k /\ timers[i].target # None)
      ~> /\ last.op = "timer" /\ last.timer = k /\ last.data # None
         /\ \E i \in 1..Len(trace) : trace[i].kind = "setState"
         /\ trace[TimerTransition].b = last.data
         /\ Shape(StepsOf(trace[TimerTransition].id, {"switch", "emit"}))
              = << <<"switch", trace[TimerTransition].a, last.data>>, <<"emit", "State-Change", "">> >>
         /\ stateID = last.data

\* every timer has a number the property covers
C10_TimersNumbered == scheduled <= MaxTimers /\ \A i \in 1..Len(timers) : timers[i].no <= scheduled

\* after start() alone, with a subscriber listening, the timer of the initial
\* state ran and took the instance to its target
C10_Witness ==
  /\ last.op = "timer" /\ last.data = "done" /\ stateID = "done"
  /\ calls = 2 /\ fired = 2
  /\ \E i \in 1..Len(trace) : trace[i].kind = "notify" /\ trace[i].a = "State-Change"
\* the indices of trace at which setState was entered with a target that is
\* no key of the table
UnknownTargets == {i \in 1..Len(trace) : trace[i].kind = "setState" /\ trace[i].b \notin DOMAIN Table}

\* setState i failed with UnknownState before it did anything, and what the
\* action of the same handler did before it stays done
FailedBeforeAnything(i) ==
  /\ err = "UnknownState"
  /\ i + 1 = Len(trace)
  /\ Shape(StepsOf(trace[i].id, {"setState", "throw", "exit", "switch", "entry", "emit", "notify",
                                 "setTimeout", "return"}))
       = << <<"setState", trace[i].a, trace[i].b>>, <<"throw", "UnknownState", "">> >>
  /\ stateID = trace[i].a /\ stateObject = trace[i].a
  /\ context = trace[i].ctx
  /\ (trace[1].kind = "action" /\ trace[i].id = trace[1].id + 1) =>
       /\ 1 \in Executions
       /\ trace[i].ctx = After(1)
       /\ changed(Before(1), After(1)) =>
            \E j \in 1..(i - 1) : trace[j].kind = "emit" /\ trace[j].id = trace[1].id
                                    /\ trace[j].a = "Context-Change"

\* C11: a transition to a target that is not a key of the state table fails
\* with UnknownState before any exit hook, state switch, entry hook,
\* State-Change or timer scheduling and leaves the current state unchanged;
\* when the event or timer also had an action, the action's change of the
\* context and its Context-Change notification have happened and stay.
C11_UnknownTargetFails == \A i \in UnknownTargets : FailedBeforeAnything(i)

\* the same for the targets that are also no member of Object.prototype
C11_OrdinaryTargetFails ==
  \A i \in UnknownTargets : trace[i].b \notin ObjectPrototype => FailedBeforeAnything(i)

\* send('bad', 'A') in state idle: the action changed the context, subscribers
\* heard Context-Change, then the transition to "ghost" failed
C11_OrdinaryObserved ==
  /\ last.op = "send" /\ err = "UnknownState" /\ trace[1].kind = "action"
  /\ context # trace[1].ctx /\ stateID = "idle"
  /\ \E j \in 1..Len(trace) : trace[j].kind = "notify" /\ trace[j].a = "Context-Change"
\* C12: two instances created from the same configuration never share context
\* storage: whatever sends, hooks and timers do on one instance, the context
\* of the other instance and the build-time context of the configuration keep
\* their values, while both instances use the one state table of the
\* configuration, which nothing changes.
C12_ContextsNotShared ==
  /\ contextId \notin {"config", sibling.context.object}
  /\ sibling.context.object # "config"
  /\ created.context.defined => created.context.object \notin {"config", "host", contextId, sibling.context.object}
  /\ configContext = InitialContext
  /\ sibling.context.value = InitialContext
  /\ sibling.stateObject = initialStateOf(cfg)
  /\ Def(sibling.stateObject) = statesImplementationOf(cfg)[initialStateOf(cfg)]

\* a send and a timer changed the context of the instance; its sibling and
\* the configuration still hold the build-time value
C12_Witness ==
  /\ fired >= 1 /\ \E i \in 1..Len(trace) : trace[i].kind = "entry"
  /\ JSONstringify(context) # JSONstringify(InitialContext)
  /\ sibling.context.value = InitialContext
  /\ configContext = InitialContext

ArgumentOf(name) == CHOOSE a \in Arguments : a.name = name

\* C13: create uses the build-time context and the build-time initial state
\* for whichever of context and initialState the caller does not supply, also
\* when exactly one of the two is supplied; getSnapshot().state of the new
\* instance is the supplied or defaulted initial state.
C13_CreateDefaultsEach ==
  last.op = "create" =>
    LET a == ArgumentOf(last.event)
    IN /\ created.stateID = (IF a.hasInitialState THEN HostInitialState(cfg) ELSE initialStateOf(cfg))
       /\ created.stateObject = created.stateID
       /\ created.context.defined
       /\ created.context.value = (IF a.hasContext THEN HostContext ELSE configContext)

\* what create does: the defaults apply when no argument is given; a property
\* missing from a given argument is undefined in the new instance
C13_CreateDefaultsWhole ==
  last.op = "create" =>
    LET a == ArgumentOf(last.event)
    IN /\ ~a.given => created = MachineInstance(cfg, initialStateOf(cfg),
                                                Reference("created", TRUE, configContext))
       /\ (a.given /\ a.hasInitialState) => created.stateID = HostInitialState(cfg)
       /\ (a.given /\ ~a.hasInitialState) => created.stateID = None /\ created.stateObject = None
       /\ (a.given /\ a.hasContext) => created.context = Reference("created", TRUE, HostContext)
       /\ (a.given /\ ~a.hasContext) => ~created.context.defined
\* timer number k is pending
Pending(k) == \E i \in 1..Len(timers) : timers[i].no = k

\* the pending timer with number k
TimerOf(k) == timers[CHOOSE i \in 1..Len(timers) : timers[i].no = k]

\* the step runs the callback of timer k
Fires(k) == fired' = fired + 1 /\ last'.op = "timer" /\ last'.timer = k

\* C14: a timer scheduled on entry to a state is never cancelled: it stays
\* pending, unchanged but for its remaining time, until its own callback
\* runs; when the instance has left the state meanwhile the timer still fires,
\* executes its action and makes the transition to its target from whatever
\* state is current then, with that state's exit hook when it differs from
\* the target.
C14_TimerNeverCancelled ==
  /\ [][\A k \in 1..MaxTimers :
          Pending(k) =>
            LET timer == TimerOf(k)
                t == trace'
                first == CHOOSE i \in 1..Len(t) :
                           t[i].kind = "setState" /\ \A j \in 1..(i - 1) : t[j].kind # "setState"
            IN /\ ~Fires(k) => \E i \in 1..Len(timers') :
                                 /\ timers'[i].no = k
                                 /\ [timers'[i] EXCEPT !.rem = 0] = [timer EXCEPT !.rem = 0]
               /\ Fires(k) =>
                    /\ \A i \in 1..Len(timers') : timers'[i].no # k
                    /\ timer.action # None =>
                         t[1].kind = "action" /\ t[1].a = timer.action /\ t[1].ctx = context
                    /\ timer.target # None =>
                         /\ \E i \in 1..Len(t) : t[i].kind = "setState"
                         /\ t[first].a = stateID /\ t[first].b = timer.target
                         /\ \A i \in 1..Len(t) : t[i].kind = "action" /\ t[i].id = t[1].id => i < first
                         /\ Shape(StepsIn(t, t[first].id, {"exit"}))
                              = (IF stateID # timer.target /\ Def(stateObject).exit # None
                                 THEN << <<"exit", stateID, Def(stateObject).exit>> >> ELSE << >>)
                         /\ Shape(StepsIn(t, t[first].id, {"switch"}))
                              = << <<"switch", stateID, timer.target>> >>]_vars
  /\ \A k \in 1..MaxTimers :
       (Pending(k) /\ stateID # TimerOf(k).owner) ~> (last.op = "timer" /\ last.timer = k)

\* a timer with an action and a target ran after the instance had left the
\* state that scheduled it: the action ran, then the exit hook of the state
\* current at that time, then the switch to the timer's target
C14_Witness ==
  /\ last.op = "timer" /\ err = NoError
  /\ Len(trace) > 1 /\ trace[1].kind = "action"
  /\ \E i, j \in 1..Len(trace) :
       /\ trace[i].kind = "setState" /\ trace[i].a # last.event /\ trace[i].a # trace[i].b
       /\ trace[j].kind = "exit" /\ trace[j].id = trace[i].id /\ trace[j].a = trace[i].a
  /\ stateID = last.data
\* the indices of trace with a step of the kind
Indices(kind) == {i \in 1..Len(trace) : trace[i].kind = kind}

\* the setTimeout calls of the last call, in order
Scheduled == SelectSeq(trace, LAMBDA e : e.kind = "setTimeout")

\* every setTimeout of the last call added a timer that is pending, next to
\* the ones pending before; timers leave only by firing
TimersAccumulate ==
  /\ Len(timers) = scheduled - fired
  /\ \A i, j \in 1..Len(timers) : i # j => timers[i].no # timers[j].no
  /\ \A j \in 1..Len(Scheduled) :
       \E i \in 1..Len(timers) :
          /\ timers[i].no = scheduled - Len(Scheduled) + j
          /\ timers[i].owner = Scheduled[j].a
          /\ timers[i].target = Scheduled[j].b
          /\ <<timers[i].action>> = Scheduled[j].data

\* C15: each entry into a state S, by a transition from another state, a
\* self-transition or a repeated start, schedules one new timer per entry of
\* S's after map, next to the timers already pending; every timer fires once,
\* so the pending timers are the scheduled ones minus the fired ones.
C15_OneTimerPerEntry ==
  /\ TimersAccumulate
  /\ err = NoError =>
       \A S \in DOMAIN Table :
         Cardinality({i \in Indices("setTimeout") : trace[i].a = S})
           = Cardinality({i \in Indices("switch") : trace[i].b = S}) * Len(Table[S].after)

\* what holds: every transition that ran to its end scheduled one timer per
\* entry of the after map of the state that was current when its
\* notifications were over
C15_Observed ==
  /\ TimersAccumulate
  /\ \A r \in Indices("return") :
       LET S == trace[r].a
           sets == StepsOf(trace[r].id, {"setTimeout"})
       IN /\ Len(sets) = Len(Def(S).after)
          /\ \A j \in 1..Len(sets) :
               /\ sets[j].a = S
               /\ sets[j].b = Def(S).after[j][2].target
               /\ sets[j].data = <<Def(S).after[j][2].action>>

\* a second entry into a state added its timers to the pending ones of the first
C15_ObservedWitness ==
  /\ last.op = "send" /\ last.event = "again" /\ Len(Scheduled) = 2
  /\ Len(timers) = 4 /\ \A i \in 1..Len(timers) : timers[i].owner = "idle"

\* C17: a transition into a state T schedules exactly one timer per entry of
\* T's after map and no timer of any other state, also when an entry hook or
\* a subscriber callback re-enters send during the transition and causes a
\* nested transition.
C17_TimersOfTarget ==
  \A i \in Transitions :
    (\E r \in Indices("return") : trace[r].id = trace[i].id) =>
      LET T == trace[i].b
          sets == StepsOf(trace[i].id, {"setTimeout"})
      IN /\ Len(sets) = Len(Table[T].after)
         /\ \A j \in 1..Len(sets) :
              /\ sets[j].a = T
              /\ sets[j].b = Table[T].after[j][2].target
              /\ sets[j].data = <<Table[T].after[j][2].action>>

\* C17 for the transitions during which no nested transition happened
C17_WithoutNesting ==
  \A i \in Transitions :
    (/\ \E r \in Indices("return") : trace[r].id = trace[i].id
     /\ \A r \in Indices("return") : trace[r].id = trace[i].id => trace[r].a = trace[i].b) =>
      LET T == trace[i].b
          sets == StepsOf(trace[i].id, {"setTimeout"})
      IN /\ Len(sets) = Len(Table[T].after)
         /\ \A j \in 1..Len(sets) :
              /\ sets[j].a = T
              /\ sets[j].b = Table[T].after[j][2].target
              /\ sets[j].data = <<Table[T].after[j][2].action>>
\* the verdicts of the guards in execution i, in the order they were given
Verdicts(i) == SelectSeq(trace, LAMBDA e : e.id = trace[i].id /\ e.kind \in {"revert", "accept"})

Reverse(seq) == [j \in 1..Len(seq) |-> seq[Len(seq) + 1 - j]]

\* what the guards leave of execution i when they are taken in reverse order
ReverseOrder(i) ==
  applyGuards([Machine EXCEPT !.guards = Reverse(guards), !.context = Mutated(i)],
              Before(i), 1, trace[i].id).context

\* C16: within one action execution every guard predicate is evaluated
\* against the context as the action left it: the revert one guard made is
\* not visible to the predicate of another, so the context the guards leave
\* does not depend on the order of the guards.
C16_GuardsSeePostMutation ==
  \A i \in Executions :
    /\ \A j \in 1..Len(Verdicts(i)) : Verdicts(i)[j].ctx = Mutated(i)
    /\ \A f \in Fields(i) : Get(After(i), f) = Get(ReverseOrder(i), f)

\* what holds: each predicate is evaluated against the context as the guards
\* before it left it
C16_Observed ==
  \A i \in Executions :
    \A j \in 1..Len(Verdicts(i)) :
      Verdicts(i)[j].ctx =
        (IF j = 1 THEN Mutated(i)
         ELSE IF Verdicts(i)[j - 1].kind = "revert"
              THEN revert(Verdicts(i)[j - 1].ctx, Before(i), Verdicts(i)[j - 1].a)
              ELSE Verdicts(i)[j - 1].ctx)

\* the first guard reverted the field the second guard's predicate reads, and
\* the second guard accepted what it would have rejected in the action's context
C16_ObservedWitness ==
  \E i \in Executions :
    /\ Len(Verdicts(i)) = 2
    /\ Verdicts(i)[1].kind = "revert" /\ Verdicts(i)[2].kind = "accept"
    /\ ~Predicate(Verdicts(i)[2].b, Mutated(i))
RECURSIVE Registry(_, _, _)
\* this.subscribers after the first n steps of t, when it was array before
Registry(array, t, n) ==
  IF n = 0 THEN array
  ELSE LET before == Registry(array, t, n - 1)
       IN CASE t[n].kind = "subscribe"   -> Append(before, t[n].b)
            [] t[n].kind = "unsubscribe" -> SelectSeq(before, LAMBDA sub : sub # t[n].b)
            [] OTHER                     -> before

\* C18: each notification pass invokes exactly the subscribers registered
\* when the pass began, once per registration and in subscription order, also
\* when callbacks subscribe or unsubscribe during the pass; a subscriber
\* added during a pass is invoked from the next pass on.
C18_PassOverRegistered ==
  [][CallStep =>
       LET t == trace'
       IN \A p \in 1..Len(t) :
            t[p].kind = "emit" =>
              /\ [j \in 1..Len(PassOf(t, p)) |-> PassOf(t, p)[j].b] = Registry(subscribers, t, p)
              /\ \A u \in (p + 1)..Len(t) :
                   (t[u].kind = "subscribe" /\ \E j \in (u + 1)..Len(t) :
                        t[j].kind = "notify" /\ t[j].id = t[p].id /\ t[j].a = t[p].a) =>
                     \A q \in (u + 1)..Len(t) :
                       (t[q].kind = "emit" /\ \A w \in (u + 1)..q : t[w].kind # "unsubscribe") =>
                         t[u].b \in Range(Registry(subscribers, t, q))]_vars

\* a callback subscribed another function during a pass with two
\* subscribers: the pass invoked the two registered when it began and not
\* the new one, which is registered when the call returns
C18_Witness ==
  \E p, u, j \in 1..Len(trace) :
    /\ p < u /\ u < j
    /\ trace[p].kind = "emit" /\ Len(trace[p].data) = 2
    /\ trace[u].kind = "subscribe"
    /\ trace[j].kind = "notify" /\ trace[j].id = trace[p].id
    /\ Len(PassOf(trace, p)) = 2
    /\ Len(subscribers) = 3 /\ subscribers[3] = trace[u].b
\* C19: send is accepted on an instance that was never started: the event is
\* dispatched against the on map of the initial state, and a transition to
\* another state runs the initial state's exit hook although its entry hook
\* never ran and none of its timers was scheduled.
C19_SendBeforeStart ==
  [][(SendStep /\ entered = {}) =>
       LET h == Lookup(Table[initialState].on, last'.event)
           t == trace'
           first == CHOOSE i \in 1..Len(t) :
                      t[i].kind = "setState" /\ \A j \in 1..(i - 1) : t[j].kind # "setState"
       IN /\ stateID = initialState /\ scheduled = 0
          /\ HasEntry(last'.event) =>
               /\ err' = (IF h.target = None \/ HasState(Machine, h.target) THEN NoError ELSE "UnknownState")
               /\ h.action # None => t[1].kind = "action" /\ t[1].a = h.action
               /\ (h.target # None /\ h.target # initialState /\ HasState(Machine, h.target)) =>
                    /\ \E i \in 1..Len(t) : t[i].kind = "setState"
                    /\ t[first].a = initialState /\ t[first].b = h.target
                    /\ Shape(StepsIn(t, t[first].id, {"exit", "switch"}))
                         = (IF Def(initialState).exit # None
                            THEN << <<"exit", initialState, Def(initialState).exit>> >> ELSE << >>)
                            \o << <<"switch", initialState, h.target>> >>
                    /\ \A i \in 1..Len(t) : ~(t[i].kind = "entry" /\ t[i].a = initialState)
                    /\ \A i \in 1..Len(t) : ~(t[i].kind = "setTimeout" /\ t[i].a = initialState)
                    /\ initialState \notin entered']_vars

\* the first call on the instance was send('go'): the exit hook of idle ran,
\* the instance is in active, no timer of idle is pending
C19_Witness ==
  /\ calls = 1 /\ last.op = "send" /\ err = NoError
  /\ \E i \in 1..Len(trace) : trace[i].kind = "exit" /\ trace[i].a = initialState
  /\ stateID # initialState /\ entered = {stateID}
  /\ timers # << >> /\ \A i \in 1..Len(timers) : timers[i].owner # initialState
\* C20: when the initial state is a key of the state table, in every
\* reachable state the current-state identifier is a key of the table and the
\* resolved definition is the table's entry for it; the two change together
\* and a failed transition changes neither.
C20_StateIsKey ==
  initialState \in DOMAIN Table =>
    /\ stateID \in DOMAIN Table
    /\ stateObject = stateID
    /\ Def(stateObject) = Table[stateID]
    /\ err = "UnknownState" =>
         /\ trace[Len(trace) - 1].kind = "setState"
         /\ stateID = trace[Len(trace) - 1].a

\* what holds: the identifier is a key of the table or the name of a member
\* of Object.prototype, and the definition is what the table yields for it
C20_Observed ==
  /\ stateID \in DOMAIN Table \cup ObjectPrototype
  /\ stateObject = stateID
  /\ err = "UnknownState" =>
       /\ trace[Len(trace) - 1].kind = "setState"
       /\ stateID = trace[Len(trace) - 1].a

\* a transition failed in a state other than the initial one and left the
\* instance there
C20_ObservedWitness ==
  /\ err = "UnknownState" /\ stateID = "idle" /\ entered # {} /\ calls >= 2
====
